---- MODULE Spec2Model ----
(***************************************************************************)
(* Punishment lifecycle of the moderation cog (src/cogs/moderation.py) and *)
(* the record store behind it (src/database.py).                           *)
(*                                                                         *)
(* Time is counted in whole hours.  A command handler is a coroutine: it   *)
(* advances from one awaited call that reads or writes shared state to the *)
(* next, and scheduled tasks and other coroutines run in between.  Awaited *)
(* calls that touch no modelled state (ctx.send, send_log) are folded into *)
(* the step before them; their failure ends the coroutine.                 *)
(*                                                                         *)
(* The guild state is the set of holders of the "Muted" role and the set   *)
(* of banned users.  Discord timeouts (member.timeout, cmd_mute,           *)
(* cmd_unmute) and the commands that do not touch warnings (purge, kick,   *)
(* ban, unban, banlist) are not modelled.  The `member` a command receives *)
(* stands for the user, whether or not the user is still in the guild.     *)
(*                                                                         *)
(* The store is durable and outlives the process.  The code reads and      *)
(* deletes punishment rows and never inserts one: the rows a behaviour     *)
(* starts with are the only ones there are.                                *)
(***************************************************************************)
EXTENDS Integers, FiniteSets, Bags, TLC

\* ---------------------------------------------------------------- bounds
MaxTime == 2          \* the clock runs over 0..MaxTime hours
MaxOps == 2           \* warn commands issued in one behaviour
MaxRows == 2          \* punishment rows in the table when the process starts
MaxTimers == 2        \* scheduled tasks alive at once
MaxCount == 12        \* warning counts the policy is looked up for: 0..MaxCount
MaxTasks == 2         \* command coroutines in flight at once

\* ------------------------------------------------------------- constants
None == -1            \* Python None / SQL NULL (duration, ends_at)

Users == {"u1", "u2"}
Guilds == {"g1", "g2"}
Pairs == {<<"u1", "g1">>, <<"u2", "g1">>, <<"u1", "g2">>}
HotPair == <<"u1", "g1">>
Actions == {"mute", "ban"}
Slots == 1..MaxTasks

\* self.PUNISHMENTS: total warnings -> (action, duration in hours)
PUNISHMENTS ==
    [c \in 3..8 |->
        CASE c = 3 -> [action |-> "mute", duration |-> 1]
          [] c = 4 -> [action |-> "mute", duration |-> 12]
          [] c = 5 -> [action |-> "mute", duration |-> 24]
          [] c = 6 -> [action |-> "mute", duration |-> 168]
          [] c = 7 -> [action |-> "mute", duration |-> 672]
          [] c = 8 -> [action |-> "ban", duration |-> None]]

NoAction == [action |-> "none", duration |-> None]

\* the lookup over a table that lacks its last entry, 8: ("ban", None)
PolicySkipsBan(c) ==
    IF c \in 3..7 THEN PUNISHMENTS[c] ELSE NoAction

\* the lookup with `warnings_count >= 8` in place of the exact match at 8
PolicyAtLeast(c) ==
    IF c >= 8 THEN PUNISHMENTS[8]
    ELSE IF c \in DOMAIN PUNISHMENTS THEN PUNISHMENTS[c] ELSE NoAction

\* `warnings_count in self.PUNISHMENTS` followed by the subscript
Policy(c) ==
    IF c \in DOMAIN PUNISHMENTS THEN PUNISHMENTS[c] ELSE NoAction

VARIABLES
    phase,        \* "constructed" (cog built, cog_load not run) or "running"
    now,          \* the clock, in hours
    warnings,     \* table warnings: set of [id, user, guild]
    nextId,       \* AUTO_INCREMENT of warnings.id
    punishments,  \* table punishments: set of [user, guild, action, ends_at]
    roles,        \* <<user, guild>> pairs holding the "Muted" role
    bans,         \* <<user, guild>> pairs banned in the guild
    timers,       \* bag of tasks created with loop.create_task
    cmds,         \* command coroutines, by slot
    fault,        \* what the environment answers to the next call
    opsLeft       \* warn commands still allowed by MaxOps

vars == <<phase, now, warnings, nextId, punishments, roles, bans, timers,
          cmds, fault, opsLeft>>

\* ------------------------------------------------------------ the store
UserWarnings(W, u, g) == {w \in W : w.user = u /\ w.guild = g}

\* add_warning without its conn.commit(): the row is lost
add_warning_uncommitted(W, id, u, g) == W

\* add_warning in one transaction with the calls that follow it: the row is
\* rolled back when one of them fails
add_warning_rolled_back(W, id, u, g) ==
    IF fault # "none" THEN W ELSE W \cup {[id |-> id, user |-> u, guild |-> g]}

\* INSERT INTO warnings: one row, id from AUTO_INCREMENT
add_warning(W, id, u, g) == W \cup {[id |-> id, user |-> u, guild |-> g]}

\* SELECT COUNT(*) FROM warnings WHERE user_id = u AND guild_id = g
get_warnings_count(W, u, g) == Cardinality(UserWarnings(W, u, g))

\* the SELECT with ORDER BY id ASC: the oldest row
get_oldest_user_warning(W, u, g) ==
    IF UserWarnings(W, u, g) = {} THEN None
    ELSE CHOOSE i \in {w.id : w \in UserWarnings(W, u, g)} :
            \A w \in UserWarnings(W, u, g) : w.id >= i

\* SELECT id ... ORDER BY id DESC LIMIT 1 (None when there is no row)
get_one_user_warning(W, u, g) ==
    IF UserWarnings(W, u, g) = {} THEN None
    ELSE CHOOSE i \in {w.id : w \in UserWarnings(W, u, g)} :
            \A w \in UserWarnings(W, u, g) : w.id <= i

\* DELETE FROM warnings WHERE id = i
delete_last_warning(W, i) == {w \in W : w.id # i}

\* the DELETE without `AND guild_id = %s`: the user's warnings of every guild
delete_all_user_warnings_any_guild(W, u, g) == {w \in W : w.user # u}

\* DELETE FROM warnings WHERE user_id = u AND guild_id = g
delete_all_user_warnings(W, u, g) == W \ UserWarnings(W, u, g)

\* the SELECT without its WHERE clause
get_all_punishments(P) == P

\* SELECT ... FROM punishments WHERE ends_at IS NOT NULL
get_all_active_punishments(P) == {r \in P : r.ends_at # None}

\* DELETE FROM punishments WHERE user_id = u AND guild_id = g AND action = a
delete_punishment(P, u, g, a) ==
    {r \in P : ~(r.user = u /\ r.guild = g /\ r.action = a)}

\* ------------------------------------------------------ scheduled tasks
\* the delay of cog_load without `if delay <= 0: delay = 0`
RecoveryDelayUnclamped(ends_at, t) == ends_at - t

\* delay = (ends_at - now).total_seconds(); if delay <= 0: delay = 0
RecoveryDelay(ends_at, t) == IF ends_at - t <= 0 THEN 0 ELSE ends_at - t

\* The clock stops at MaxTime: a task due later than that cannot wake within
\* the behaviours explored, and its due time is recorded as Later.
Later == MaxTime + 1

\* when a sleep of `delay` hours started at time t ends
Due(t, delay) == IF t + delay > MaxTime THEN Later ELSE t + delay

\* a task asleep in asyncio.sleep(delay), started at time t
Timer(fn, u, g, a, delay, t) ==
    [fn |-> fn, user |-> u, guild |-> g, action |-> a,
     delay |-> delay, due |-> Due(t, delay), pc |-> "sleep"]

\* the task cog_load creates for one row
RecoveryTimer(r, t) ==
    Timer("_delayed_unpunish", r.user, r.guild, r.action,
          RecoveryDelay(r.ends_at, t), t)

\* the tasks cog_load creates, one per row returned
RecoveryTimers(P, t) ==
    LET rows == get_all_active_punishments(P)
        ts == {RecoveryTimer(r, t) : r \in rows}
    IN  [x \in ts |-> Cardinality({r \in rows : RecoveryTimer(r, t) = x})]

\* ------------------------------------------------------------- commands
Idle == [cmd |-> "none", user |-> "-", guild |-> "-", pc |-> "idle",
         count |-> 0, row |-> None]

\* a command takes the lowest free slot
Free(t) ==
    /\ cmds[t] = Idle
    /\ \A s \in Slots : s < t => cmds[s] # Idle

\* ----------------------------------------------------------------- Init
\* The store is durable: the process finds the warnings and the punishment
\* rows earlier runs left behind.  A punishment row stands for a punishment
\* in force.
\* warnings of HotPair already in the ledger when the process starts
InitCounts == {0, 2, 7}

\* a table left without the key: two rows for one (user, guild, action)
InitTablesNoKey ==
    {{[user |-> HotPair[1], guild |-> HotPair[2], action |-> "mute",
       ends_at |-> e] : e \in {None, 1}}}

\* No code path inserts a punishment row or changes one, and every access
\* to the table is by (user, guild, action): the table the process finds has
\* at most one row for a key.
InitTables ==
    {P \in SUBSET [user : {HotPair[1]}, guild : {HotPair[2]},
                   action : Actions, ends_at : {None, 1}] :
        /\ Cardinality(P) <= MaxRows
        /\ \A r, q \in P : (r.action = q.action) => r = q}

Init ==
    /\ phase = "constructed"
    /\ now = 0
    /\ \E c \in InitCounts :
          /\ warnings = {[id |-> i, user |-> HotPair[1], guild |-> HotPair[2]] :
                            i \in 1..c}
          /\ nextId = c + 1
    /\ punishments \in InitTables
    /\ roles = {<<r.user, r.guild>> : r \in {x \in punishments : x.action = "mute"}}
    /\ bans = {<<r.user, r.guild>> : r \in {x \in punishments : x.action = "ban"}}
    /\ timers = EmptyBag
    /\ cmds = [t \in Slots |-> Idle]
    /\ fault = "none"
    /\ opsLeft = MaxOps

\* ------------------------------------------------------- the environment
\* The enforcement surface and the gateway are fallible.  `fault` is what the
\* next call meets: "forbidden", the guild refuses a role or ban call
\* (discord.Forbidden); "send", a message cannot be sent; "unresolved", the
\* guild or the member cannot be resolved.  The environment changes it at
\* any time, between any two awaited calls.
Faults == {"none", "forbidden", "send", "unresolved"}

SetFault(f) ==
    /\ phase = "running"
    /\ f # fault
    /\ fault' = f
    /\ UNCHANGED <<phase, now, warnings, nextId, punishments, roles, bans,
                   timers, cmds, opsLeft>>

\* --------------------------------------------------------------- cog_load
\* connect, read the rows with an expiry, create one task per row
cog_load ==
    /\ phase = "constructed"
    /\ phase' = "running"
    /\ timers' = RecoveryTimers(punishments, now)
    /\ UNCHANGED <<now, warnings, nextId, punishments, roles, bans, cmds,
                   fault, opsLeft>>

\* The process stops and a new one is constructed: every task and every
\* coroutine in flight is lost, the store and the guild state stay.
Restart ==
    /\ phase = "running"
    /\ phase' = "constructed"
    /\ timers' = EmptyBag
    /\ cmds' = [t \in Slots |-> Idle]
    /\ fault' = "none"
    /\ UNCHANGED <<now, warnings, nextId, punishments, roles, bans, opsLeft>>

Tick ==
    /\ now < MaxTime
    /\ now' = now + 1
    /\ UNCHANGED <<phase, warnings, nextId, punishments, roles, bans, timers,
                   cmds, fault, opsLeft>>

\* ------------------------------------------- a command moves or returns
\* the coroutine in slot t goes on as c; with pc "return" it has returned,
\* or died of an exception it did not catch
Goto(t, c) ==
    cmds' = [cmds EXCEPT ![t] = IF c.pc = "return" THEN Idle ELSE c]

Return(t) == cmds' = [cmds EXCEPT ![t] = Idle]

\* ------------------------------------------------------- apply_punishment
\* apply_punishment without its create_task(unmute_later())
MuteTasksNone(duration, u, g, t) == EmptyBag

\* the task apply_punishment creates after a mute: `if duration:` unmute_later
MuteTasks(duration, u, g, t) ==
    IF duration # None /\ duration # 0
    THEN SetToBag({Timer("unmute_later", u, g, "mute", duration, t)})
    ELSE EmptyBag

\* apply_punishment for a mute: add_roles, ctx.send, create_task
ApplyMute(u, g, duration) ==
    /\ roles' = IF fault = "forbidden" THEN roles ELSE roles \cup {<<u, g>>}
    /\ timers' = IF fault \in {"forbidden", "send"} THEN timers
                 ELSE timers (+) MuteTasks(duration, u, g, now)
    /\ bans' = bans

\* apply_punishment for a ban: return if already banned, else member.ban
ApplyBan(u, g) ==
    /\ bans' = IF <<u, g>> \in bans \/ fault = "forbidden" THEN bans
               ELSE bans \cup {<<u, g>>}
    /\ roles' = roles
    /\ timers' = timers

\* apply_punishment(member, warnings_count, ctx), entered with a listed count
apply_punishment(t) ==
    LET c == cmds[t]
        p == Policy(c.count)
    IN
    /\ phase = "running"
    /\ c.pc = "apply"
    /\ BagCardinality(timers) < MaxTimers    \* bound on the tasks alive
    /\ IF p.action = "mute" THEN ApplyMute(c.user, c.guild, p.duration)
       ELSE IF p.action = "ban" THEN ApplyBan(c.user, c.guild)
       ELSE UNCHANGED <<roles, bans, timers>>
    /\ Return(t)
    /\ UNCHANGED <<phase, now, warnings, nextId, punishments, fault, opsLeft>>

\* --------------------------------------------------------------- cmd_warn
\* the command starts: add_warning
cmd_warn(t, u, g) ==
    /\ phase = "running"
    /\ Free(t)
    /\ opsLeft > 0
    /\ warnings' = add_warning(warnings, nextId, u, g)
    /\ nextId' = nextId + 1
    /\ opsLeft' = opsLeft - 1
    /\ Goto(t, [cmd |-> "warn", user |-> u, guild |-> g, pc |-> "count",
                count |-> 0, row |-> None])
    /\ UNCHANGED <<phase, now, punishments, roles, bans, timers, fault>>

\* where cmd_warn goes once it has the count and has sent its notices
WarnNext(c, n) ==
    IF Policy(n).action # "none"
    THEN [c EXCEPT !.pc = "apply", !.count = n]
    ELSE [c EXCEPT !.pc = "return", !.count = n]

\* get_warnings_count, then ctx.send (member.send and send_log are guarded)
warn_count(t) ==
    LET c == cmds[t]
        n == get_warnings_count(warnings, c.user, c.guild)
    IN
    /\ phase = "running"
    /\ c.cmd = "warn" /\ c.pc = "count"
    /\ IF fault = "send" THEN Return(t) ELSE Goto(t, WarnNext(c, n))
    /\ UNCHANGED <<phase, now, warnings, nextId, punishments, roles, bans,
                   timers, fault, opsLeft>>

\* ------------------------------------------------------------ cmd_delwarn
\* the command starts: get_one_user_warning; no row, no change
cmd_delwarn(t, u, g) ==
    LET row == get_one_user_warning(warnings, u, g) IN
    /\ phase = "running"
    /\ Free(t)
    /\ Goto(t, [cmd |-> "delwarn", user |-> u, guild |-> g,
                pc |-> IF row = None THEN "return" ELSE "delete",
                count |-> 0, row |-> row])
    /\ UNCHANGED <<phase, now, warnings, nextId, punishments, roles, bans,
                   timers, fault, opsLeft>>

\* delete_last_warning(row[0]), then ctx.send and send_log
delwarn_delete(t) ==
    LET c == cmds[t] IN
    /\ phase = "running"
    /\ c.cmd = "delwarn" /\ c.pc = "delete"
    /\ warnings' = delete_last_warning(warnings, c.row)
    /\ IF fault = "send" THEN Return(t) ELSE Goto(t, [c EXCEPT !.pc = "count"])
    /\ UNCHANGED <<phase, now, nextId, punishments, roles, bans, timers,
                   fault, opsLeft>>

\* where cmd_delwarn goes with the count: apply_punishment acts on a listed
\* count, adjust_punishment_after_change on a count below 3
DelwarnNext(c, n) ==
    IF Policy(n).action # "none" THEN [c EXCEPT !.pc = "apply", !.count = n]
    ELSE IF n < 3 THEN [c EXCEPT !.pc = "adjust", !.count = n]
    ELSE [c EXCEPT !.pc = "return", !.count = n]

\* get_warnings_count
delwarn_count(t) ==
    LET c == cmds[t]
        n == get_warnings_count(warnings, c.user, c.guild)
    IN
    /\ phase = "running"
    /\ c.cmd = "delwarn" /\ c.pc = "count"
    /\ Goto(t, DelwarnNext(c, n))
    /\ UNCHANGED <<phase, now, warnings, nextId, punishments, roles, bans,
                   timers, fault, opsLeft>>

\* member.remove_roles(mute_role): the role is gone unless the call is refused
remove_roles(R, u, g) == IF fault = "forbidden" THEN R ELSE R \ {<<u, g>>}

\* guild.unban: the ban is lifted unless the call is refused; without a ban
\* the call raises NotFound, which every caller catches
unban(B, u, g) == IF fault = "forbidden" THEN B ELSE B \ {<<u, g>>}

\* adjust_punishment_after_change with warn_count < 3: remove_roles on a
\* holder of the role; member.timeout(None) is guarded
adjust_punishment_after_change(t) ==
    LET c == cmds[t] IN
    /\ phase = "running"
    /\ c.pc = "adjust"
    /\ roles' = remove_roles(roles, c.user, c.guild)
    /\ Return(t)
    /\ UNCHANGED <<phase, now, warnings, nextId, punishments, bans, timers,
                   fault, opsLeft>>

\* --------------------------------------------------------- cmd_clearwarns
\* the command starts: delete_all_user_warnings, then ctx.send and send_log
cmd_clearwarns(t, u, g) ==
    /\ phase = "running"
    /\ Free(t)
    /\ warnings' = delete_all_user_warnings(warnings, u, g)
    /\ IF fault = "send" THEN Return(t)
       ELSE Goto(t, [cmd |-> "clearwarns", user |-> u, guild |-> g,
                     pc |-> "unmute", count |-> 0, row |-> None])
    /\ UNCHANGED <<phase, now, nextId, punishments, roles, bans, timers,
                   fault, opsLeft>>

\* member.timeout(None); remove_roles if the role is held, Forbidden caught
clearwarns_unmute(t) ==
    LET c == cmds[t] IN
    /\ phase = "running"
    /\ c.cmd = "clearwarns" /\ c.pc = "unmute"
    /\ roles' = remove_roles(roles, c.user, c.guild)
    /\ Goto(t, [c EXCEPT !.pc = "unban"])
    /\ UNCHANGED <<phase, now, warnings, nextId, punishments, bans, timers,
                   fault, opsLeft>>

\* ctx.guild.unban(discord.Object(id=member.id)), NotFound caught
clearwarns_unban(t) ==
    LET c == cmds[t] IN
    /\ phase = "running"
    /\ c.cmd = "clearwarns" /\ c.pc = "unban"
    /\ bans' = unban(bans, c.user, c.guild)
    /\ Return(t)
    /\ UNCHANGED <<phase, now, warnings, nextId, punishments, roles, timers,
                   fault, opsLeft>>

\* --------------------------------------------------------- unmute_later
\* the closure of apply_punishment: sleep, remove_roles, ctx.send
unmute_later(tm) ==
    /\ phase = "running"
    /\ BagIn(tm, timers)
    /\ tm.fn = "unmute_later"
    /\ now >= tm.due
    /\ timers' = timers (-) SetToBag({tm})
    /\ roles' = remove_roles(roles, tm.user, tm.guild)
    /\ UNCHANGED <<phase, now, warnings, nextId, punishments, bans, cmds,
                   fault, opsLeft>>

\* ------------------------------------------------------ _delayed_unpunish
\* the task after its reversal when the unban has no `except
\* discord.NotFound`: lifting a ban that is not there ends the task
AfterWakeNotFoundRaised(tm) ==
    IF \/ fault = "unresolved"
       \/ fault = "forbidden" /\ tm.action = "mute" /\ <<tm.user, tm.guild>> \in roles
       \/ fault = "forbidden" /\ tm.action = "ban"
       \/ tm.action = "ban" /\ <<tm.user, tm.guild>> \notin bans
    THEN EmptyBag
    ELSE SetToBag({[tm EXCEPT !.pc = "delete"]})

\* the task after its reversal: it goes on to delete_punishment unless the
\* guild or the member was not resolved (return) or the call was refused
AfterWake(tm) ==
    IF \/ fault = "unresolved"
       \/ fault = "forbidden" /\ tm.action = "mute" /\ <<tm.user, tm.guild>> \in roles
       \/ fault = "forbidden" /\ tm.action = "ban"
    THEN EmptyBag
    ELSE SetToBag({[tm EXCEPT !.pc = "delete"]})

\* sleep(delay), get_guild, get_member, then the reversal of the action
delayed_unpunish_wake(tm) ==
    /\ phase = "running"
    /\ BagIn(tm, timers)
    /\ tm.fn = "_delayed_unpunish" /\ tm.pc = "sleep"
    /\ now >= tm.due
    /\ roles' = IF tm.action = "mute" /\ fault # "unresolved"
                THEN remove_roles(roles, tm.user, tm.guild) ELSE roles
    /\ bans' = IF tm.action = "ban" /\ fault # "unresolved"
               THEN unban(bans, tm.user, tm.guild) ELSE bans
    /\ timers' = (timers (-) SetToBag({tm})) (+) AfterWake(tm)
    /\ UNCHANGED <<phase, now, warnings, nextId, punishments, cmds, fault,
                   opsLeft>>

\* await self.db.delete_punishment(user_id, guild_id, action)
delayed_unpunish_delete(tm) ==
    /\ phase = "running"
    /\ BagIn(tm, timers)
    /\ tm.fn = "_delayed_unpunish" /\ tm.pc = "delete"
    /\ punishments' = delete_punishment(punishments, tm.user, tm.guild, tm.action)
    /\ timers' = timers (-) SetToBag({tm})
    /\ UNCHANGED <<phase, now, warnings, nextId, roles, bans, cmds, fault,
                   opsLeft>>

\* ------------------------------------------------------------------ Next
\* Spec: one member of one guild, one command at a time, an environment
\* that accepts every call.  Scheduled tasks run between the awaited calls
\* of a command.
Next ==
    \/ cog_load
    \/ Restart
    \/ Tick
    \/ cmd_warn(1, HotPair[1], HotPair[2])
    \/ warn_count(1)
    \/ apply_punishment(1)
    \/ cmd_delwarn(1, HotPair[1], HotPair[2])
    \/ delwarn_delete(1)
    \/ delwarn_count(1)
    \/ adjust_punishment_after_change(1)
    \/ cmd_clearwarns(1, HotPair[1], HotPair[2])
    \/ clearwarns_unmute(1)
    \/ clearwarns_unban(1)
    \/ \E tm \in BagToSet(timers) : unmute_later(tm)
    \/ \E tm \in BagToSet(timers) : delayed_unpunish_wake(tm)
    \/ \E tm \in BagToSet(timers) : delayed_unpunish_delete(tm)

Spec == Init /\ [][Next]_vars

\* SpecFaulty: the same, in an environment that may refuse a call, fail to
\* send a message, or fail to resolve a guild or a member.
NextFaulty ==
    \/ Next
    \/ \E f \in Faults : SetFault(f)

SpecFaulty == Init /\ [][NextFaulty]_vars

\* =================================================================== claims
Key(x) == <<x.user, x.guild, x.action>>

WarningsCount(p) == get_warnings_count(warnings, p[1], p[2])

\* the scheduled tasks alive for a key, as a number
LiveTimers(k) ==
    LET ts == {tm \in BagToSet(timers) : Key(tm) = k}
        Sum[S \in SUBSET ts] ==
            IF S = {} THEN 0
            ELSE LET x == CHOOSE y \in S : TRUE
                 IN  CopiesIn(x, timers) + Sum[S \ {x}]
    IN  Sum[ts]

\* a step of the coroutine in slot t, from pc `from`, that is no restart
StepFrom(t, from) ==
    /\ cmds[t].pc = from
    /\ cmds'[t] # cmds[t]
    /\ phase' = "running"

\* ------------------------------------------------------------------- C1
\* the table of section 4.1, hours
TableOf(c) ==
    CASE c = 3 -> <<"mute", 1>>
      [] c = 4 -> <<"mute", 12>>
      [] c = 5 -> <<"mute", 24>>
      [] c = 6 -> <<"mute", 168>>
      [] c = 7 -> <<"mute", 672>>
      [] c = 8 -> <<"ban", None>>
      [] OTHER -> <<"none", None>>

\* C1: for every warning count c the policy lookup returns the table value,
\* 3 -> (mute, 1h), 4 -> (mute, 12h), 5 -> (mute, 24h), 6 -> (mute, 168h),
\* 7 -> (mute, 672h), 8 -> (ban, permanent), and no action for every other
\* count; the answer depends on c alone, and a coroutine that has looked a
\* count up carries the table's answer for it.
C1_PolicyTable ==
    /\ \A c \in 0..MaxCount :
          <<Policy(c).action, Policy(c).duration>> = TableOf(c)
    /\ \A t \in Slots :
          /\ cmds[t].pc = "apply" => TableOf(cmds[t].count)[1] # "none"
          /\ cmds[t].pc = "adjust" => TableOf(cmds[t].count)[1] = "none"

\* a warn has counted 8 warnings and looked the ban up
C1_Witness ==
    \E t \in Slots :
        /\ cmds[t].cmd = "warn" /\ cmds[t].pc = "apply"
        /\ cmds[t].count = 8
        /\ Policy(cmds[t].count) = [action |-> "ban", duration |-> None]

\* ------------------------------------------------------------------- C2
\* C2: for every (user, guild) with warning count c, the append of a warn
\* adds exactly one row, so that the count read right after it is c + 1; and
\* the count the warn then recomputes is the count of the pair's rows: the
\* rows that were there before its own, plus one.
C2_WarnThenCount ==
    [][\A t \in Slots :
          LET p == <<cmds'[t].user, cmds'[t].guild>>
              q == <<cmds[t].user, cmds[t].guild>>
          IN
          /\ (cmds[t] = Idle /\ cmds'[t].cmd = "warn") =>
                /\ get_warnings_count(warnings', p[1], p[2]) = WarningsCount(p) + 1
                /\ warnings \subseteq warnings'
                /\ Cardinality(warnings' \ warnings) = 1
          /\ (StepFrom(t, "count") /\ cmds[t].cmd = "warn" /\ cmds'[t].pc = "apply") =>
                /\ cmds'[t].count = WarningsCount(q)
                /\ cmds'[t].count =
                      Cardinality({w \in UserWarnings(warnings, q[1], q[2]) :
                                      w.id < nextId - 1}) + 1
    ]_vars

\* a warn has appended the third warning of the pair and not yet counted
C2_Witness ==
    \E t \in Slots :
        /\ cmds[t].cmd = "warn" /\ cmds[t].pc = "count"
        /\ WarningsCount(<<cmds[t].user, cmds[t].guild>>) = 3
        /\ nextId = 4

\* ------------------------------------------------------------------- C3
\* C3: when the enforcement surface accepts the calls, a warn that brings
\* the count to exactly 3 leaves the user with the mute role and creates one
\* task that lifts it after a sleep of 1 hour; a warn that brings the count
\* to exactly 8 leaves the user banned and creates no task.
C3_ThresholdThreeAndEight ==
    [][\A t \in Slots :
          LET c == cmds[t]
              p == <<c.user, c.guild>>
          IN
          (StepFrom(t, "apply") /\ c.cmd = "warn" /\ fault = "none") =>
             /\ c.count = 3 =>
                   /\ p \in roles'
                   /\ timers' = timers (+) SetToBag({
                         [fn |-> "unmute_later", user |-> c.user,
                          guild |-> c.guild, action |-> "mute", delay |-> 1,
                          due |-> now + 1, pc |-> "sleep"]})
             /\ c.count = 8 =>
                   /\ p \in bans'
                   /\ timers' = timers
    ]_vars

\* the third warning was given, the user is muted, the 1 h task is asleep
C3_Witness ==
    /\ phase = "running"
    /\ cmds[1] = Idle
    /\ WarningsCount(HotPair) = 3
    /\ HotPair \in roles
    /\ punishments = {}
    /\ \E tm \in BagToSet(timers) :
          /\ tm.fn = "unmute_later" /\ tm.delay = 1
          /\ <<tm.user, tm.guild>> = HotPair

\* ------------------------------------------------------------------- C4
\* a scheduled task ends in this step (it is not the wake of a
\* _delayed_unpunish that goes on to delete_punishment)
TaskEnds(tm) ==
    /\ phase' = "running"
    /\ CopiesIn(tm, timers') < CopiesIn(tm, timers)
    /\ ~(/\ tm.pc = "sleep"
         /\ CopiesIn([tm EXCEPT !.pc = "delete"], timers')
               > CopiesIn([tm EXCEPT !.pc = "delete"], timers))

\* C4: whenever a scheduled reversal fires for (user, guild, action), the
\* punishment row of that key is deleted by the time the task ends, whether
\* the task was created by apply_punishment or by startup recovery.
C4_FireDeletesRow ==
    [][\A tm \in BagToSet(timers) :
          TaskEnds(tm) => \A r \in punishments' : Key(r) # Key(tm)
    ]_vars

\* ------------------------------------------------------------------- C5
\* C5: when clearAllWarnings returns, the pair has no warning, the user is
\* neither muted nor banned in the guild, and the punishment table has no
\* mute row and no ban row for the pair.
C5_ClearwarnsClearsAll ==
    [][\A t \in Slots :
          LET c == cmds[t]
              p == <<c.user, c.guild>>
          IN
          (StepFrom(t, "unban") /\ c.cmd = "clearwarns" /\ fault = "none") =>
             /\ get_warnings_count(warnings', p[1], p[2]) = 0
             /\ p \notin roles'
             /\ p \notin bans'
             /\ \A r \in punishments' : <<r.user, r.guild>> # p
    ]_vars

\* ------------------------------------------------------------------- C6
\* C6: startup recovery creates, for every punishment row with an expiry, a
\* task that sleeps max(0, ends_at - now): the rest of the time to the stored
\* expiry, and 0 for a row that has already expired, so that the task is
\* due at once.
C6_RecoveryDelay ==
    [][(phase = "constructed" /\ phase' = "running") =>
          \A r \in punishments :
             r.ends_at # None =>
                \E tm \in BagToSet(timers') :
                   /\ tm.fn = "_delayed_unpunish" /\ tm.pc = "sleep"
                   /\ Key(tm) = Key(r)
                   /\ tm.delay = IF r.ends_at > now THEN r.ends_at - now ELSE 0
                   /\ tm.due = now + tm.delay
                   /\ r.ends_at <= now => tm.due <= now'
    ]_vars

\* recovery ran after the expiry of a row: its task sleeps 0 and is due
C6_Witness ==
    /\ phase = "running"
    /\ \E tm \in BagToSet(timers), r \in punishments :
          /\ tm.fn = "_delayed_unpunish" /\ tm.pc = "sleep"
          /\ Key(tm) = Key(r)
          /\ r.ends_at # None /\ r.ends_at < now
          /\ tm.delay = 0 /\ tm.due = now

\* ------------------------------------------------------------------- C7
\* SpecDelwarnFire: a member muted under a punishment row that expires at
\* hour 1; the only command is delwarn, the only scheduled tasks are the one
\* startup recovery creates for the row and those delwarn's apply_punishment
\* creates; the environment is fallible.
InitDelwarnFire ==
    /\ Init
    /\ punishments = {[user |-> HotPair[1], guild |-> HotPair[2],
                       action |-> "mute", ends_at |-> 1]}

NextDelwarnFire ==
    \/ cog_load
    \/ Tick
    \/ \E f \in Faults : SetFault(f)
    \/ cmd_delwarn(1, HotPair[1], HotPair[2])
    \/ delwarn_delete(1)
    \/ delwarn_count(1)
    \/ apply_punishment(1)
    \/ adjust_punishment_after_change(1)
    \/ \E tm \in BagToSet(timers) : unmute_later(tm)
    \/ \E tm \in BagToSet(timers) : delayed_unpunish_wake(tm)
    \/ \E tm \in BagToSet(timers) : delayed_unpunish_delete(tm)

SpecDelwarnFire == InitDelwarnFire /\ [][NextDelwarnFire]_vars

\* a warning of the pair was deleted and no delwarn is in flight
DelwarnCompleted ==
    /\ cmds[1] = Idle
    /\ Cardinality(warnings) < nextId - 1

\* startup recovery ran and every scheduled task of the key has ended
FireCompleted(k) ==
    /\ phase = "running"
    /\ LiveTimers(k) = 0

\* C7: in every interleaving of a deleteLatestWarning and a scheduler fire on
\* the same (user, guild, action), once both have completed the punishment
\* row of the key is not present while the user is no longer muted.
C7_NoOrphanRow ==
    LET k == <<HotPair[1], HotPair[2], "mute">> IN
    (DelwarnCompleted /\ FireCompleted(k)) =>
        ~(/\ \E r \in punishments : Key(r) = k
          /\ HotPair \notin roles)

\* ------------------------------------------------------------------- C8
Keys == {<<p[1], p[2], a>> : p \in Pairs, a \in Actions}

\* C8: while the process is running, after startup recovery, each punishment
\* row with an expiry has exactly one live scheduled reversal for its key,
\* and there is no live scheduled reversal without such a row.
C8_OneTimerPerRow ==
    phase = "running" =>
        \A k \in Keys :
           LET rows == {r \in punishments : Key(r) = k /\ r.ends_at # None}
           IN  /\ rows # {} => LiveTimers(k) = 1
               /\ LiveTimers(k) > 0 => rows # {}

\* ------------------------------------------------------------------- C9
\* C9: a temporary punishment that was applied is still reversed after the
\* process stops and restarts: when startup recovery has run, every user who
\* is muted for a time has a pending reversal, re-created from the table.
C9_RecoveryRecreatesReversal ==
    [][(phase = "constructed" /\ phase' = "running") =>
          \A p \in Pairs :
             (/\ p \in roles
              /\ \A r \in punishments :
                    Key(r) = <<p[1], p[2], "mute">> => r.ends_at # None)
             => \E tm \in BagToSet(timers') : Key(tm) = <<p[1], p[2], "mute">>
    ]_vars

\* ------------------------------------------------------------------ C10
\* C10: when applyPunishment applies a mute or a ban, a punishment row keyed
\* (user, guild, action) is in the table when the operation completes, with
\* expiry = application time + policy duration, or none for a permanent one.
C10_ApplyPersistsRow ==
    [][\A t \in Slots :
          LET c == cmds[t]
              p == Policy(c.count)
          IN
          (/\ StepFrom(t, "apply") /\ fault = "none"
           /\ ~(p.action = "ban" /\ <<c.user, c.guild>> \in bans)) =>
             \E r \in punishments' :
                /\ Key(r) = <<c.user, c.guild, p.action>>
                /\ r.ends_at = IF p.duration = None THEN None
                               ELSE now + p.duration
    ]_vars

\* ------------------------------------------------------------------ C11
\* the task tm of _delayed_unpunish wakes in this step
Wakes(tm) ==
    /\ tm.fn = "_delayed_unpunish" /\ tm.pc = "sleep"
    /\ phase' = "running"
    /\ CopiesIn(tm, timers') < CopiesIn(tm, timers)

\* C11: when a scheduled reversal fires and the target guild or the target
\* user cannot be resolved, the task makes no reversal call (the role and
\* the ban stay as they are) and still deletes the punishment row of its
\* key: it goes on to delete_punishment, and no row of the key is left when
\* it ends.
C11_UnresolvedStillDeletes ==
    [][\A tm \in BagToSet(timers) :
          (Wakes(tm) /\ fault = "unresolved") =>
             /\ roles' = roles /\ bans' = bans
             /\ CopiesIn([tm EXCEPT !.pc = "delete"], timers')
                   > CopiesIn([tm EXCEPT !.pc = "delete"], timers)
             /\ ~TaskEnds(tm)
    ]_vars

\* ------------------------------------------------------------------ C12
\* the task tm of unmute_later fires in this step
Fires(tm) ==
    /\ tm.fn = "unmute_later"
    /\ phase' = "running"
    /\ CopiesIn(tm, timers') < CopiesIn(tm, timers)

\* The mute whose reversal tm is was reversed by hand, and the same mute was
\* applied to the key again later: a second task of the same policy duration
\* is pending for the key and is not due yet.  With one command at a time,
\* the count came back to the same threshold either from above, and then the
\* task of the higher threshold's mute is alive as well, or from below 3,
\* and then adjust_punishment_after_change or cmd_clearwarns has removed the
\* role in between.
ReappliedAfterManualReversal(tm) ==
    /\ \E tm2 \in BagToSet(timers) :
          /\ tm2.fn = "unmute_later" /\ Key(tm2) = Key(tm)
          /\ tm2.delay = tm.delay
          /\ tm2.due > now
    /\ \A tm3 \in BagToSet(timers) : Key(tm3) = Key(tm) => tm3.delay = tm.delay

\* C12: after a mute of (user, guild) was reversed by clearAllWarnings or by
\* adjustPunishmentAfterChange, the reversal scheduled for it takes no
\* effect any more: when it fires it is a no-op, and it does not lift the
\* mute that was applied to the same key after the manual reversal.
C12_StaleFireIsNoOp ==
    [][\A tm \in BagToSet(timers) :
          (Fires(tm) /\ ReappliedAfterManualReversal(tm)) =>
             (<<tm.user, tm.guild>> \in roles => <<tm.user, tm.guild>> \in roles')
    ]_vars

\* ------------------------------------------------------------------ C13
\* the mute of this count is in force for the pair: the role is held and the
\* reversal apply_punishment scheduled for it is pending
MuteOfCountActive(u, g, count) ==
    /\ <<u, g>> \in roles
    /\ \E tm \in BagToSet(timers) :
          /\ tm.fn = "unmute_later" /\ Key(tm) = <<u, g, "mute">>
          /\ tm.delay = Policy(count).duration

\* C13: apply_punishment called again for the same (user, guild, count)
\* while the punishment of that count is in force changes nothing: the role
\* and ban state, the punishment table and the scheduled tasks are as they
\* were; for a ban on a user who is already banned it bans nobody, writes no
\* row and schedules nothing.
C13_ApplyIdempotent ==
    [][\A t \in Slots :
          LET c == cmds[t]
              p == Policy(c.count)
          IN
          (StepFrom(t, "apply") /\ fault = "none") =>
             /\ (p.action = "mute" /\ MuteOfCountActive(c.user, c.guild, c.count)) =>
                   /\ roles' = roles /\ bans' = bans
                   /\ punishments' = punishments
                   /\ timers' = timers
             /\ (p.action = "ban" /\ <<c.user, c.guild>> \in bans) =>
                   /\ roles' = roles /\ bans' = bans
                   /\ punishments' = punishments
                   /\ timers' = timers
    ]_vars

\* ------------------------------------------------------------------ C14
\* the counts section 4.1 lists
Listed(c) == TableOf(c)[1] # "none"

\* C14: a warn whose resulting count is not a listed threshold appends its
\* warning and changes nothing else: its append leaves the role and ban
\* state, the punishment table and the scheduled tasks as they were, and
\* once it has counted it returns without another step, so that nothing is
\* applied, written or scheduled.
C14_UnlistedCountFrame ==
    [][\A t \in Slots :
          LET p == <<cmds'[t].user, cmds'[t].guild>>
              q == <<cmds[t].user, cmds[t].guild>>
          IN
          /\ (/\ cmds[t] = Idle /\ cmds'[t].cmd = "warn"
              /\ ~Listed(WarningsCount(p) + 1)) =>
                /\ Cardinality(warnings' \ warnings) = 1
                /\ warnings \subseteq warnings'
                /\ UNCHANGED <<roles, bans, punishments, timers>>
          /\ (/\ StepFrom(t, "count") /\ cmds[t].cmd = "warn"
              /\ ~Listed(WarningsCount(q))) =>
                /\ cmds'[t] = Idle
                /\ UNCHANGED <<warnings, roles, bans, punishments, timers>>
    ]_vars

\* a warn gave the pair its ninth warning and has returned
C14_Witness ==
    /\ phase = "running"
    /\ cmds[1] = Idle
    /\ WarningsCount(HotPair) = 9
    /\ nextId = 10
    /\ HotPair \notin bans
    /\ timers = EmptyBag

\* ------------------------------------------------------------------ C15
\* SpecWarnFaulty: warn is the only command, in an environment that may
\* refuse a call, fail to send a message or fail to resolve a member; the
\* scheduled tasks are those of startup recovery and of warn's own mutes.
NextWarnFaulty ==
    \/ cog_load
    \/ Restart
    \/ Tick
    \/ \E f \in Faults : SetFault(f)
    \/ cmd_warn(1, HotPair[1], HotPair[2])
    \/ warn_count(1)
    \/ apply_punishment(1)
    \/ \E tm \in BagToSet(timers) : unmute_later(tm)
    \/ \E tm \in BagToSet(timers) : delayed_unpunish_wake(tm)
    \/ \E tm \in BagToSet(timers) : delayed_unpunish_delete(tm)

SpecWarnFaulty == Init /\ [][NextWarnFaulty]_vars

\* C15: whatever fails during a warn, a notice that cannot be sent or a role
\* or ban call that is refused, the warning it appended stays: the append
\* raises the pair's count by one whatever the environment answers, and no
\* later step of the warn, failed or not, takes a row out of the ledger.
C15_FailedWarnKeepsWarning ==
    [][\A t \in Slots :
          LET p == <<cmds'[t].user, cmds'[t].guild>> IN
          /\ (cmds[t] = Idle /\ cmds'[t].cmd = "warn") =>
                /\ get_warnings_count(warnings', p[1], p[2]) = WarningsCount(p) + 1
                /\ warnings \subseteq warnings'
          /\ (cmds[t].cmd = "warn" /\ cmds'[t] # cmds[t] /\ phase' = "running") =>
                warnings' = warnings
    ]_vars

\* the warn that gave the pair its third warning has ended, the mute was
\* refused: the user is not muted, nothing is scheduled, the count is 3
C15_Witness ==
    /\ phase = "running" /\ now = 0
    /\ cmds[1] = Idle
    /\ fault = "forbidden"
    /\ WarningsCount(HotPair) = 3 /\ nextId = 4
    /\ HotPair \notin roles
    /\ timers = EmptyBag

\* ------------------------------------------------------------------ C16
\* the removal command in slot t (delwarn or clearwarns) completes in this
\* step
RemovalCompletes(t) ==
    /\ cmds[t].cmd \in {"delwarn", "clearwarns"}
    /\ cmds'[t] = Idle
    /\ phase' = "running"

\* C16: when a removal of warnings has brought the count of (user, guild)
\* below the threshold of a punishment in force, the punishment is reversed
\* when the operation completes, enforcement failures aside.  The only ban
\* threshold is 8 and the lowest mute threshold is 3: a deleteLatestWarning
\* that took the count from 8 to 7 leaves the user not banned, one that took
\* it from 3 to 2 (adjustPunishmentAfterChange) leaves the user not muted,
\* and clearAllWarnings leaves the user neither muted nor banned.
C16_RemovalReverses ==
    [][\A t \in Slots :
          LET p == <<cmds[t].user, cmds[t].guild>>
              n == get_warnings_count(warnings', p[1], p[2])
          IN
          (RemovalCompletes(t) /\ fault = "none") =>
             /\ (cmds[t].cmd = "delwarn" /\ n = 7) => p \notin bans'
             /\ (cmds[t].cmd = "delwarn" /\ n = 2) => p \notin roles'
             /\ (cmds[t].cmd = "clearwarns" /\ n = 0) =>
                   p \notin bans' /\ p \notin roles'
    ]_vars

\* ------------------------------------------------------------------ C17
\* the rows of key k with an expiry, as a number
RowsWithExpiry(P, k) ==
    Cardinality({r \in P : Key(r) = k /\ r.ends_at # None})

C19_ReverseIdempotent ==
    [][\A tm \in BagToSet(timers) :
          LET p == <<tm.user, tm.guild>> IN
          ((Fires(tm) \/ Wakes(tm)) /\ fault = "none") =>
             /\ tm.action = "mute" =>
                   /\ roles' = roles \ {p} /\ bans' = bans
                   /\ p \notin roles => roles' = roles
             /\ tm.action = "ban" =>
                   /\ bans' = bans \ {p} /\ roles' = roles
                   /\ p \notin bans => bans' = bans
             /\ Wakes(tm) =>
                   CopiesIn([tm EXCEPT !.pc = "delete"], timers')
                      > CopiesIn([tm EXCEPT !.pc = "delete"], timers)
    ]_vars

\* the ban of a row was lifted twice, by a clearwarns that has completed
\* (seven warnings gone at once) and by the row's task, which has gone on to
\* delete_punishment
C19_Witness ==
    /\ phase = "running"
    /\ cmds[1] = Idle
    /\ WarningsCount(HotPair) = 0 /\ nextId = 8
    /\ HotPair \notin bans
    /\ \E tm \in BagToSet(timers) :
          tm.fn = "_delayed_unpunish" /\ tm.action = "ban" /\ tm.pc = "delete"

\* ------------------------------------------------------------------ C20
\* the highest id among the pair's warnings
MaxId(W, u, g) ==
    CHOOSE i \in {w.id : w \in UserWarnings(W, u, g)} :
        \A w \in UserWarnings(W, u, g) : w.id <= i

\* C20: deleteLatestWarning on a pair with no warnings changes no state: the
\* command only goes on when the pair has a warning, and then it holds the
\* highest id of the pair and has changed nothing yet.  Its delete removes
\* exactly one row, the one of the pair with the highest id: the count goes
\* down by exactly 1, every other warning remains, and the role and ban
\* state, the punishment table and the scheduled tasks are as they were.
C20_DeleteLatestWarning ==
    [][\A t \in Slots :
          LET c == cmds[t]
              d == cmds'[t]
          IN
          /\ (c = Idle /\ d.cmd = "delwarn") =>
                /\ get_warnings_count(warnings, d.user, d.guild) >= 1
                /\ d.row = MaxId(warnings, d.user, d.guild)
                /\ UNCHANGED <<warnings, roles, bans, punishments, timers>>
          /\ (StepFrom(t, "delete") /\ c.cmd = "delwarn") =>
                /\ \E w \in UserWarnings(warnings, c.user, c.guild) :
                      /\ w.id = MaxId(warnings, c.user, c.guild)
                      /\ warnings' = warnings \ {w}
                /\ get_warnings_count(warnings', c.user, c.guild)
                      = get_warnings_count(warnings, c.user, c.guild) - 1
                /\ UNCHANGED <<roles, bans, punishments, timers>>
    ]_vars

\* a delwarn has deleted the seventh of seven warnings and is about to count
C20_Witness ==
    \E t \in Slots :
        /\ cmds[t].cmd = "delwarn" /\ cmds[t].pc = "count"
        /\ cmds[t].row = 7 /\ nextId = 8
        /\ {w.id : w \in warnings} = 1..6

\* ------------------------------------------------------------------ C21
\* The user was muted for count n (task tm) and, before that mute expired,
\* warned again and muted for count n + 1: the task of the longer mute is
\* pending and not due, tm fires at its own expiry, and no warning of the
\* ledger was ever removed, so the counts only went up and tm is the older
\* of the two.
EscalatedBeforeExpiry(tm) ==
    /\ now = tm.due
    /\ Cardinality(warnings) = nextId - 1
    /\ \E n \in 3..6 :
          /\ tm.delay = PUNISHMENTS[n].duration
          /\ \E tm2 \in BagToSet(timers) :
                /\ tm2.fn = "unmute_later" /\ Key(tm2) = Key(tm)
                /\ tm2.delay = PUNISHMENTS[n + 1].duration
                /\ tm2.due > now

\* C21: a user muted for count n (3 <= n <= 6) who reaches count n + 1
\* before the first mute expires stays muted until the duration of count
\* n + 1 has elapsed since the later warn: the reversal scheduled for the
\* earlier, shorter mute does not take the role when it fires.
C21_EscalationNotLiftedEarly ==
    [][\A tm \in BagToSet(timers) :
          (Fires(tm) /\ EscalatedBeforeExpiry(tm)
             /\ <<tm.user, tm.guild>> \in roles) =>
                <<tm.user, tm.guild>> \in roles'
    ]_vars

\* ------------------------------------------------------------------ C22
\* SpecRace: warn is the only command, on one member of one guild, and up to
\* MaxTasks warns are in flight at once; every call is accepted and the
\* process keeps running.  The punishment table is empty, so the scheduled
\* tasks are those of the warns' own mutes.  The count of the pair only goes
\* up and nothing lifts a ban.
InitRace ==
    /\ Init
    /\ punishments = {}

NextRace ==
    \/ cog_load
    \/ Tick
    \/ \E t \in Slots : cmd_warn(t, HotPair[1], HotPair[2])
    \/ \E t \in Slots : warn_count(t)
    \/ \E t \in Slots : apply_punishment(t)
    \/ \E tm \in BagToSet(timers) : unmute_later(tm)

SpecRace == InitRace /\ [][NextRace]_vars

\* every warn has returned and the pair, at 8 warnings or more, is banned:
\* the warn that crossed 8 observed it and applied the ban
BanThresholdObserved ==
    (/\ phase = "running"
     /\ \A t \in Slots : cmds[t] = Idle
     /\ WarningsCount(HotPair) >= 8) => HotPair \in bans

\* C22: two warns that run concurrently on the same (user, guild) from count
\* c observe c + 1 and c + 2: no two warns in flight observe the same
\* threshold count, so no punishment is applied twice, and no threshold that
\* was crossed goes unobserved, so that once the warns have returned from a
\* count of 8 or more the ban of threshold 8 is in force.
C22_ConcurrentWarnsSerialized ==
    [][/\ \A t, s \in Slots :
             (/\ t # s
              /\ StepFrom(t, "count") /\ cmds[t].cmd = "warn"
              /\ cmds'[t].pc = "apply"
              /\ cmds[s].cmd = "warn" /\ cmds[s].pc = "apply"
              /\ <<cmds[s].user, cmds[s].guild>> = <<cmds[t].user, cmds[t].guild>>)
             => cmds'[t].count # cmds[s].count
       /\ BanThresholdObserved'
    ]_vars

\* ------------------------------------------------------------------ C23
\* SpecFrame: one command at a time in an environment that accepts every
\* call, as in Spec, with the commands issued on any of the pairs: the same
\* user in another guild, another user in the same guild.  One member
\* starts muted and banned, with a mute row that expires at hour 1 and a
\* permanent ban row: the state the commands on the other pairs must leave.
\* The process keeps running.
InitFrame ==
    /\ Init
    /\ punishments =
          {[user |-> HotPair[1], guild |-> HotPair[2], action |-> "mute",
            ends_at |-> 1],
           [user |-> HotPair[1], guild |-> HotPair[2], action |-> "ban",
            ends_at |-> None]}

NextFrame ==
    \/ cog_load
    \/ Tick
    \/ \E p \in Pairs : cmd_warn(1, p[1], p[2])
    \/ warn_count(1)
    \/ apply_punishment(1)
    \/ \E p \in Pairs : cmd_delwarn(1, p[1], p[2])
    \/ delwarn_delete(1)
    \/ delwarn_count(1)
    \/ adjust_punishment_after_change(1)
    \/ \E p \in Pairs : cmd_clearwarns(1, p[1], p[2])
    \/ clearwarns_unmute(1)
    \/ clearwarns_unban(1)
    \/ \E tm \in BagToSet(timers) : unmute_later(tm)
    \/ \E tm \in BagToSet(timers) : delayed_unpunish_wake(tm)
    \/ \E tm \in BagToSet(timers) : delayed_unpunish_delete(tm)

SpecFrame == InitFrame /\ [][NextFrame]_vars

\* the scheduled tasks of a pair, with their numbers
TimersOf(T, q) ==
    {<<tm, CopiesIn(tm, T)>> :
        tm \in {x \in BagToSet(T) : <<x.user, x.guild>> = q}}

\* the command in slot t takes a step in this one
CommandSteps(t) ==
    /\ cmds'[t] # cmds[t]
    /\ phase' = "running"
    /\ cmds[t].cmd \in {"warn", "delwarn", "clearwarns"}
          \/ cmds'[t].cmd \in {"warn", "delwarn", "clearwarns"}

\* C23: every step of a warn, a deleteLatestWarning or a clearAllWarnings on
\* one (user, guild) leaves every other pair as it was: its warnings and so
\* its count, its punishment rows, its role and ban state and its scheduled
\* tasks; the same user in another guild and another user in the same guild
\* included.
C23_OtherPairsUnchanged ==
    [][\A t \in Slots :
          LET c == IF cmds[t] = Idle THEN cmds'[t] ELSE cmds[t]
              p == <<c.user, c.guild>>
          IN
          CommandSteps(t) =>
             \A q \in Pairs \ {p} :
                /\ UserWarnings(warnings', q[1], q[2]) = UserWarnings(warnings, q[1], q[2])
                /\ {r \in punishments' : <<r.user, r.guild>> = q}
                      = {r \in punishments : <<r.user, r.guild>> = q}
                /\ (q \in roles') = (q \in roles)
                /\ (q \in bans') = (q \in bans)
                /\ TimersOf(timers', q) = TimersOf(timers, q)
    ]_vars

\* a clearwarns on another user of the guild has cleared and unmuted; the
\* member with seven warnings, a mute and a ban has all of them still
C23_Witness ==
    /\ cmds[1].cmd = "clearwarns" /\ cmds[1].pc = "unban"
    /\ <<cmds[1].user, cmds[1].guild>> = <<"u2", "g1">>
    /\ WarningsCount(HotPair) = 7
    /\ HotPair \in roles /\ HotPair \in bans
    /\ Cardinality(punishments) = 2
    /\ LiveTimers(<<HotPair[1], HotPair[2], "mute">>) = 1

====
